---- MODULE Spec2Model ----
(***************************************************************************)
(* Model of the trace visualizer: the span tree builder and renderer of    *)
(* span-tree.ts (buildSpanTree, renderTimelineBar, renderSpanTree,         *)
(* renderTrace) and the span collector of instrumentation.ts               *)
(* (Processor.onEnd and its render timer).                                 *)
(*                                                                         *)
(* Three specifications share the module:                                  *)
(*   Spec          a span list is assembled span by span and handed to     *)
(*                 renderTrace;                                            *)
(*   SpecBar       renderTimelineBar applied to bounded arguments;         *)
(*   SpecCollector onEnd calls, the passing of time and timer callbacks.   *)
(*                                                                         *)
(* A span is a record [spanId, parentSpanId, startTime].  parentSpanId 0   *)
(* stands for the falsy values of the source (undefined, '').  Span lists  *)
(* have pairwise distinct spanIds, as the span contexts of the producer    *)
(* guarantee; since the code only compares ids for equality, the span at   *)
(* position i is given spanId i.  Parent ids range over every position, 0  *)
(* and one id that no span carries, so that forward references, self       *)
(* references, cycles and missing parents all occur.                       *)
(* The name, duration and attributes of a span only shape the text of its  *)
(* line and are left out; a rendered line is kept as the node it is for,   *)
(* with its prefix and connector.  Times are whole milliseconds, and the   *)
(* ratios of renderTimelineBar are computed exactly.                       *)
(* In the collector, onEnd's filtering of attributes is left out likewise. *)
(***************************************************************************)
EXTENDS Integers, Sequences, FiniteSets, TLC

\* Bounds of the model.
MaxSpans == 3
MaxStart == 1

VARIABLES
    spans,      \* the SpanData[] being assembled / handed to renderTrace
    pc,         \* "input" until renderTrace has been called, then "done"
    root,       \* spanId of the node buildSpanTree returned, 0 for null
    children,   \* spanId -> sequence of spanIds: node.children of every node
    lines,      \* the lines renderSpanTree produced
    outcome     \* "none", "ok", "empty" (tree was null) or "RangeError"

treeVars == <<spans, pc, root, children, lines, outcome>>

NoParent == 0
MissingId == MaxSpans + 1
ParentIds == 0 .. MaxSpans + 1
StartTimes == 0 .. MaxStart

----------------------------------------------------------------------------
\* Helpers that stand for JavaScript built-ins.

Min(a, b) == IF a < b THEN a ELSE b
Max(a, b) == IF a > b THEN a ELSE b

\* Array.prototype.sort((a, b) => key[a] - key[b]): a stable sort, written as
\* an insertion sort.  InsertSorted puts x after every element whose key is
\* less than or equal to its own.
RECURSIVE InsertSorted(_, _, _)
InsertSorted(sorted, x, key) ==
    IF sorted = <<>> THEN <<x>>
    ELSE IF key[sorted[Len(sorted)]] <= key[x] THEN Append(sorted, x)
    ELSE Append(InsertSorted(SubSeq(sorted, 1, Len(sorted) - 1), x, key),
                sorted[Len(sorted)])

RECURSIVE SortFrom(_, _, _, _)
SortFrom(seq, i, acc, key) ==
    IF i > Len(seq) THEN acc
    ELSE SortFrom(seq, i + 1, InsertSorted(acc, seq[i], key), key)

SortBy(seq, key) == SortFrom(seq, 1, <<>>, key)

----------------------------------------------------------------------------
\* buildSpanTree

SpanIdsOf(ss) == {ss[i].spanId : i \in DOMAIN ss}

\* spanMap after the first loop: the last span set under an id wins.
SpanMap(ss) ==
    [id \in SpanIdsOf(ss) |->
        ss[CHOOSE i \in DOMAIN ss :
              /\ ss[i].spanId = id
              /\ \A j \in DOMAIN ss : ss[j].spanId = id => j <= i]]

\* startTime of every node, the key of both sorts.
StartOf(ss) == [id \in SpanIdsOf(ss) |-> SpanMap(ss)[id].startTime]

\* Mutant: a child is linked only to a parent that came earlier in the list.
LinkStepParentSeen(ss, st, i) ==
    LET span == ss[i]
        node == span.spanId
    IN  IF /\ span.parentSpanId # NoParent
           /\ span.parentSpanId \in SpanIdsOf(SubSeq(ss, 1, i))
        THEN [st EXCEPT !.children[span.parentSpanId] = Append(@, node)]
        ELSE IF span.parentSpanId = NoParent
        THEN [st EXCEPT !.root = node]
        ELSE st

\* Mutant: every span that is not linked to a parent is taken as the root.
LinkStepOrphanRoot(ss, st, i) ==
    LET span == ss[i]
        node == span.spanId
    IN  IF span.parentSpanId # NoParent /\ span.parentSpanId \in SpanIdsOf(ss)
        THEN [st EXCEPT !.children[span.parentSpanId] = Append(@, node)]
        ELSE [st EXCEPT !.root = node]

\* Mutant: the first parentless span stays the root.
LinkStepFirstRoot(ss, st, i) ==
    LET span == ss[i]
        node == span.spanId
    IN  IF span.parentSpanId # NoParent /\ span.parentSpanId \in SpanIdsOf(ss)
        THEN [st EXCEPT !.children[span.parentSpanId] = Append(@, node)]
        ELSE IF span.parentSpanId = NoParent /\ st.root = 0
        THEN [st EXCEPT !.root = node]
        ELSE st

\* One iteration of the linking loop on span ss[i]; st = [root, children].
LinkStep(ss, st, i) ==
    LET span == ss[i]
        node == span.spanId
    IN  IF span.parentSpanId # NoParent /\ span.parentSpanId \in SpanIdsOf(ss)
        THEN [st EXCEPT !.children[span.parentSpanId] = Append(@, node)]
        ELSE IF span.parentSpanId = NoParent
        THEN [st EXCEPT !.root = node]
        ELSE st

RECURSIVE LinkFrom(_, _, _)
LinkFrom(ss, st, i) ==
    IF i > Len(ss) THEN st ELSE LinkFrom(ss, LinkStep(ss, st, i), i + 1)

LinkChildren(ss) ==
    LinkFrom(ss, [root |-> 0, children |-> [id \in SpanIdsOf(ss) |-> <<>>]], 1)

\* A recursion deeper than the number of nodes has come back to a node it is
\* already inside of.  The walks below are deterministic and leave the
\* children of a sorted node as they are, so such a recursion never returns:
\* the engine ends it with RangeError (maximum call stack size exceeded).
StackOverflows(ch, depth) == depth > Cardinality(DOMAIN ch)

\* sortChildren(node): sort node.children in place, then recurse into each.
\* The result is [ok, children]; ok is FALSE when the recursion overflows.
RECURSIVE SortChildren(_, _, _, _)
RECURSIVE SortEach(_, _, _, _, _)
SortChildren(ch, node, key, depth) ==
    IF StackOverflows(ch, depth) THEN [ok |-> FALSE, children |-> ch]
    ELSE LET sorted == SortBy(ch[node], key)
         IN  SortEach([ch EXCEPT ![node] = sorted], sorted, 1, key, depth)

SortEach(ch, kids, i, key, depth) ==
    IF i > Len(kids) THEN [ok |-> TRUE, children |-> ch]
    ELSE LET r == SortChildren(ch, kids[i], key, depth + 1)
         IN  IF r.ok THEN SortEach(r.children, kids, i + 1, key, depth) ELSE r

\* Mutant: the fallback takes the first span of the list.
FallbackRootUnsorted(ss) == ss[1].spanId

\* The fallback root: [...spans].sort(by startTime)[0].spanId.
FallbackRoot(ss) ==
    LET sortedSpans == SortBy([i \in DOMAIN ss |-> i],
                              [i \in DOMAIN ss |-> ss[i].startTime])
    IN  ss[sortedSpans[1]].spanId

\* buildSpanTree(spans): [ok, root, children]; root 0 is null.
BuildSpanTree(ss) ==
    IF Len(ss) = 0 THEN [ok |-> TRUE, root |-> 0, children |-> <<>>]
    ELSE LET linked == LinkChildren(ss)
         IN  IF linked.root # 0
             THEN LET s == SortChildren(linked.children, linked.root, StartOf(ss), 1)
                  IN  [ok |-> s.ok, root |-> linked.root, children |-> s.children]
             ELSE [ok |-> TRUE, root |-> FallbackRoot(ss),
                   children |-> linked.children]

----------------------------------------------------------------------------
\* renderSpanTree

\* A rendered line is reduced to what places it in the tree: the node it is
\* for, the prefix handed down by its ancestors and its connector.  The ASCII
\* strings stand for the box-drawing strings of the source.
HeaderLine == [node |-> 0, prefix |-> <<>>, connector |-> "header"]

Connector(isLast, isRoot) == IF isRoot THEN "" ELSE IF isLast THEN "+- " ELSE "|- "

ChildPrefix(prefix, isLast, isRoot) ==
    IF isRoot THEN <<>> ELSE Append(prefix, IF isLast THEN "   " ELSE "|  ")

\* renderNode(node, prefix, isLast, isRoot) appends to out = [ok, lines].
RECURSIVE RenderNode(_, _, _, _, _, _, _)
RECURSIVE RenderEach(_, _, _, _, _, _)
\* Mutant: a node's line is pushed after the lines of its children.
RenderNodeLineLast(ch, out, node, prefix, isLast, isRoot, depth) ==
    IF StackOverflows(ch, depth) THEN [ok |-> FALSE, lines |-> out.lines]
    ELSE LET line == [node |-> node, prefix |-> prefix,
                      connector |-> Connector(isLast, isRoot)]
             r == RenderEach(ch, out, node, ChildPrefix(prefix, isLast, isRoot),
                             1, depth)
         IN  IF r.ok THEN [r EXCEPT !.lines = Append(@, line)] ELSE r

RenderNode(ch, out, node, prefix, isLast, isRoot, depth) ==
    IF StackOverflows(ch, depth) THEN [ok |-> FALSE, lines |-> out.lines]
    ELSE LET line == [node |-> node, prefix |-> prefix,
                      connector |-> Connector(isLast, isRoot)]
         IN  RenderEach(ch, [out EXCEPT !.lines = Append(@, line)], node,
                        ChildPrefix(prefix, isLast, isRoot), 1, depth)

RenderEach(ch, out, node, childPrefix, index, depth) ==
    IF index > Len(ch[node]) THEN out
    ELSE LET r == RenderNode(ch, out, ch[node][index], childPrefix,
                             index = Len(ch[node]), FALSE, depth + 1)
         IN  IF r.ok THEN RenderEach(ch, r, node, childPrefix, index + 1, depth)
             ELSE r

RenderSpanTree(rt, ch) ==
    RenderNode(ch, [ok |-> TRUE, lines |-> <<HeaderLine>>], rt, <<>>, TRUE, TRUE, 1)

----------------------------------------------------------------------------
\* Specification Spec: assemble a span list, then renderTrace(traceId, spans).

TreeInit ==
    /\ spans = <<>>
    /\ pc = "input"
    /\ root = 0
    /\ children = <<>>
    /\ lines = <<>>
    /\ outcome = "none"

AddSpan ==
    /\ pc = "input"
    /\ Len(spans) < MaxSpans
    /\ \E p \in ParentIds, t \in StartTimes :
          spans' = Append(spans, [spanId |-> Len(spans) + 1,
                                  parentSpanId |-> p, startTime |-> t])
    /\ UNCHANGED <<pc, root, children, lines, outcome>>

RenderTrace ==
    /\ pc = "input"
    /\ pc' = "done"
    /\ LET tree == BuildSpanTree(spans)
       IN  IF ~tree.ok
           THEN /\ outcome' = "RangeError"
                /\ UNCHANGED <<root, children, lines>>
           ELSE IF tree.root = 0
           THEN /\ outcome' = "empty"
                /\ UNCHANGED <<root, children, lines>>
           ELSE LET text == RenderSpanTree(tree.root, tree.children)
                IN  /\ root' = tree.root
                    /\ children' = tree.children
                    /\ lines' = IF text.ok THEN text.lines ELSE <<>>
                    /\ outcome' = IF text.ok THEN "ok" ELSE "RangeError"
    /\ UNCHANGED spans

\* renderTrace throws: one of its two recursive walks overflows the stack.
RenderTraceThrows(ss) ==
    LET tree == BuildSpanTree(ss)
    IN  \/ ~tree.ok
        \/ tree.root # 0 /\ ~RenderSpanTree(tree.root, tree.children).ok

----------------------------------------------------------------------------
\* renderTimelineBar

\* The glyphs of the bar; the ASCII strings stand for the block and the dot.
Solid == "#"
Filler == "."

\* String.prototype.repeat(count): count copies; a negative count throws
\* RangeError, which is the result [ok |-> FALSE].
Repeat(glyph, count) ==
    IF count < 0 THEN [ok |-> FALSE, text |-> <<>>]
    ELSE [ok |-> TRUE, text |-> [i \in 1 .. count |-> glyph]]

\* Math.round(num / den) for num >= 0 and den > 0: the nearest integer, a
\* half rounding up.
Round(num, den) == (2 * num + den) \div (2 * den)

\* Mutant: the start position is not clamped.
AdjustedStartPosUnclamped(startPos, barWidth) == startPos

\* min(startPos, barWidth - 1): leaves room for one cell of the bar.
AdjustedStartPos(startPos, barWidth) == Min(startPos, barWidth - 1)

\* renderTimelineBar on times in whole milliseconds.  The ratios of the source
\* are kept as their numerators over totalDuration, so that
\* ratio * barWidth is rounded once, exactly.
RenderTimelineBar(startTime, duration, traceStartTime, totalDuration, barWidth) ==
    IF totalDuration = 0 THEN Repeat(Solid, barWidth)
    ELSE LET startOffset == Max(0, startTime - traceStartTime)
             startRatioNum == Min(startOffset, totalDuration)
             durationRatioNum == Min(duration, totalDuration - startRatioNum)
             startPos == Max(0, Round(startRatioNum * barWidth, totalDuration))
             barLength == Max(1, Round(durationRatioNum * barWidth, totalDuration))
             adjustedStartPos == AdjustedStartPos(startPos, barWidth)
             endPos == Min(barWidth, adjustedStartPos + barLength)
             before == Repeat(Filler, adjustedStartPos)
             bar == Repeat(Solid, Max(1, endPos - adjustedStartPos))
             after == Repeat(Filler, Max(0, barWidth - endPos))
         IN  [ok |-> before.ok /\ bar.ok /\ after.ok,
              text |-> before.text \o bar.text \o after.text]

----------------------------------------------------------------------------
\* Specification SpecBar: renderTimelineBar applied to bounded arguments.

MaxTime == 3
MaxBarWidth == 4

VARIABLES
    barArgs,    \* the arguments of the call
    barPc,      \* "call" before the call, "done" after it, "idle" if unused
    barOut      \* the result [ok, text]; ok is FALSE if repeat threw

barVars == <<barArgs, barPc, barOut>>

NoBar == [ok |-> TRUE, text |-> <<>>]

BarArguments ==
    [startTime : 0 .. MaxTime, duration : 0 .. MaxTime,
     traceStartTime : 0 .. MaxTime, totalDuration : 0 .. MaxTime,
     barWidth : 0 .. MaxBarWidth]

BarIdle ==
    /\ barArgs = [startTime |-> 0, duration |-> 0, traceStartTime |-> 0,
                  totalDuration |-> 0, barWidth |-> 0]
    /\ barPc = "idle"
    /\ barOut = NoBar

BarInit ==
    /\ barArgs \in BarArguments
    /\ barPc = "call"
    /\ barOut = NoBar

CallRenderTimelineBar ==
    /\ barPc = "call"
    /\ barPc' = "done"
    /\ barOut' = RenderTimelineBar(barArgs.startTime, barArgs.duration,
                                   barArgs.traceStartTime, barArgs.totalDuration,
                                   barArgs.barWidth)
    /\ UNCHANGED barArgs

----------------------------------------------------------------------------
\* The span collector of instrumentation.ts.

\* setTimeout(..., 100)
TimerDelay == 100

\* Time passes in steps of half the delay.
TickMs == TimerDelay \div 2

MaxCalls == 3
NumTraces == 2

TraceIds == 1 .. NumTraces

\* The HrTime start times spans arrive with.
HrTimes == {<<1, 500000000>>}

VARIABLES
    traceSpans,      \* Map traceId -> SpanData[]: a function on the keys present
    pendingRenders,  \* Map traceId -> timer id: a function on the keys present
    timers,          \* the runtime's scheduled timers: [id, traceId, age]
    rendered,        \* the renderTrace calls so far: [traceId, spans], with
                     \* history: the timer that made the call, and the ms
                     \* since the trace's last onEnd (any, parentless)
    calls,           \* the number of onEnd calls so far
    collectedUnder,  \* history: spanId -> the traceId its onEnd call carried
    sinceSpan,       \* history: traceId -> ms since its last onEnd (capped)
    sinceRootSpan    \* history: traceId -> ms since its last parentless onEnd
                     \*          (capped)

collectorVars == <<traceSpans, pendingRenders, timers, rendered, calls,
                   collectedUnder, sinceSpan, sinceRootSpan>>

vars == <<treeVars, barVars, collectorVars>>

\* hrTimeToMs([seconds, nanoseconds]), on whole milliseconds.
HrTimeToMs(hrTime) == hrTime[1] * 1000 + hrTime[2] \div 1000000

Has(map, key) == key \in DOMAIN map

MapSet(map, key, value) ==
    [k \in DOMAIN map \cup {key} |-> IF k = key THEN value ELSE map[k]]

MapDelete(map, key) == [k \in DOMAIN map \ {key} |-> map[k]]

\* Mutant: the pending timer is not cleared.
ClearPendingNothing(ts, pending, traceId) == ts

\* clearTimeout(pendingRenders.get(traceId)) when the trace has an entry.
ClearPending(ts, pending, traceId) ==
    IF Has(pending, traceId) THEN {t \in ts : t.id # pending[traceId]} ELSE ts

\* The branch `if (!parentSpanId)` of onEnd.
SchedulesRender(parentSpanId) == parentSpanId = NoParent

CollectorIdle ==
    /\ traceSpans = <<>>
    /\ pendingRenders = <<>>
    /\ timers = {}
    /\ rendered = <<>>
    /\ calls = 0
    /\ collectedUnder = <<>>
    /\ sinceSpan = [t \in TraceIds |-> TimerDelay]
    /\ sinceRootSpan = [t \in TraceIds |-> TimerDelay]

\* Processor.onEnd(span).  The span context gives the span a fresh spanId;
\* parentSpanId is the first truthy of the three places the source reads.
OnEnd(traceId, parentSpanId, hrStart) ==
    /\ calls < MaxCalls
    /\ calls' = calls + 1
    /\ LET spanId == calls + 1
           spanData == [spanId |-> spanId, parentSpanId |-> parentSpanId,
                        startTime |-> HrTimeToMs(hrStart)]
           buffer == IF Has(traceSpans, traceId) THEN traceSpans[traceId] ELSE <<>>
       IN  /\ traceSpans' = MapSet(traceSpans, traceId, Append(buffer, spanData))
           /\ collectedUnder' = MapSet(collectedUnder, spanId, traceId)
           /\ IF SchedulesRender(parentSpanId)
              THEN /\ timers' = ClearPending(timers, pendingRenders, traceId)
                                  \cup {[id |-> spanId, traceId |-> traceId, age |-> 0]}
                   /\ pendingRenders' = MapSet(pendingRenders, traceId, spanId)
                   /\ sinceRootSpan' = [sinceRootSpan EXCEPT ![traceId] = 0]
              ELSE UNCHANGED <<timers, pendingRenders, sinceRootSpan>>
    /\ sinceSpan' = [sinceSpan EXCEPT ![traceId] = 0]
    /\ UNCHANGED rendered

\* Mutant: the rendered buffer is kept.
AfterRenderKeepsBuffer(maps, traceId) ==
    [traceSpans |-> maps.traceSpans,
     pendingRenders |-> MapDelete(maps.pendingRenders, traceId)]

\* The callback's effect on the two maps once renderTrace has returned.
AfterRender(maps, traceId) ==
    [traceSpans |-> MapDelete(maps.traceSpans, traceId),
     pendingRenders |-> MapDelete(maps.pendingRenders, traceId)]

\* The callback handed to setTimeout runs, once, when its delay has passed.
TimerFires(timer) ==
    /\ timer \in timers
    /\ timer.age >= TimerDelay
    /\ timers' = timers \ {timer}
    /\ LET traceId == timer.traceId
           maps == [traceSpans |-> traceSpans, pendingRenders |-> pendingRenders]
       IN  IF Has(traceSpans, traceId) /\ Len(traceSpans[traceId]) > 0
           THEN /\ rendered' = Append(rendered,
                    [traceId |-> traceId, spans |-> traceSpans[traceId],
                     timer |-> timer.id, quiet |-> sinceSpan[traceId],
                     quietRoot |-> sinceRootSpan[traceId]])
                /\ IF RenderTraceThrows(traceSpans[traceId])
                   THEN UNCHANGED <<traceSpans, pendingRenders>>
                   ELSE /\ traceSpans' = AfterRender(maps, traceId).traceSpans
                        /\ pendingRenders' = AfterRender(maps, traceId).pendingRenders
           ELSE UNCHANGED <<rendered, traceSpans, pendingRenders>>
    /\ UNCHANGED <<calls, collectedUnder, sinceSpan, sinceRootSpan>>

\* TickMs milliseconds pass.  Ages stop at TimerDelay: past it a timer is due.
Age(ms) == Min(ms + TickMs, TimerDelay)

Tick ==
    /\ timers' = {[t EXCEPT !.age = Age(@)] : t \in timers}
    /\ sinceSpan' = [t \in TraceIds |-> Age(sinceSpan[t])]
    /\ sinceRootSpan' = [t \in TraceIds |-> Age(sinceRootSpan[t])]
    /\ UNCHANGED <<traceSpans, pendingRenders, rendered, calls, collectedUnder>>

----------------------------------------------------------------------------
\* The three specifications.

Init == TreeInit /\ BarIdle /\ CollectorIdle

Next ==
    \/ AddSpan /\ UNCHANGED <<barVars, collectorVars>>
    \/ RenderTrace /\ UNCHANGED <<barVars, collectorVars>>

Spec == Init /\ [][Next]_vars

TreeIdle ==
    /\ spans = <<>>
    /\ pc = "idle"
    /\ root = 0
    /\ children = <<>>
    /\ lines = <<>>
    /\ outcome = "none"

InitBar == TreeIdle /\ BarInit /\ CollectorIdle

NextBar == CallRenderTimelineBar /\ UNCHANGED <<treeVars, collectorVars>>

SpecBar == InitBar /\ [][NextBar]_vars

InitCollector == TreeIdle /\ BarIdle /\ CollectorIdle

NextCollector ==
    \/ \E traceId \in TraceIds, parentSpanId \in 0 .. MaxCalls, hrStart \in HrTimes :
          OnEnd(traceId, parentSpanId, hrStart) /\ UNCHANGED <<treeVars, barVars>>
    \/ \E timer \in timers : TimerFires(timer) /\ UNCHANGED <<treeVars, barVars>>
    \/ Tick /\ UNCHANGED <<treeVars, barVars>>

SpecCollector == InitCollector /\ [][NextCollector]_vars

----------------------------------------------------------------------------
\* Vocabulary of the properties of buildSpanTree and renderSpanTree.

ParentlessIndices(ss) == {i \in DOMAIN ss : ss[i].parentSpanId = NoParent}

\* Spans whose non-empty parentSpanId matches no spanId of the list.
OrphanIndices(ss) ==
    {i \in DOMAIN ss : /\ ss[i].parentSpanId # NoParent
                       /\ ss[i].parentSpanId \notin SpanIdsOf(ss)}

Occurrences(seq, x) == Cardinality({k \in DOMAIN seq : seq[k] = x})

ChildrenOf(ch, n) == {ch[n][k] : k \in DOMAIN ch[n]}

RECURSIVE ReachFrom(_, _)
ReachFrom(set, ch) ==
    LET more == set \cup UNION {ChildrenOf(ch, n) : n \in set}
    IN  IF more = set THEN set ELSE ReachFrom(more, ch)

\* The nodes reachable from node rt along children, rt included.
Reachable(rt, ch) == IF rt \in DOMAIN ch THEN ReachFrom({rt}, ch) ELSE {}

NonDecreasing(seq, key) ==
    \A k \in DOMAIN seq : k > 1 => key[seq[k - 1]] <= key[seq[k]]

\* The index of the first span of least startTime.
FirstEarliest(ss) ==
    CHOOSE i \in DOMAIN ss :
        /\ \A j \in DOMAIN ss : ss[i].startTime <= ss[j].startTime
        /\ \A j \in DOMAIN ss : ss[j].startTime = ss[i].startTime => i <= j

LastOf(set) == CHOOSE i \in set : \A j \in set : j <= i

\* The nodes of the rendered lines after the header, in order.
RenderedNodes == [k \in 1 .. Len(lines) - 1 |-> lines[k + 1].node]

PositionOf(n) == CHOOSE k \in DOMAIN RenderedNodes : RenderedNodes[k] = n

----------------------------------------------------------------------------
\* C1: for a non-empty span list with unique spanIds and exactly one
\* parentless span, buildSpanTree returns the node of that span as root, and
\* every other span whose parentSpanId is the spanId of a span of the list
\* occurs exactly once in the children of the node of its parentSpanId and in
\* no other node's children.
C1_SingleRootTree ==
    (pc = "done" /\ Len(spans) > 0 /\ Cardinality(ParentlessIndices(spans)) = 1) =>
        LET r == CHOOSE i \in ParentlessIndices(spans) : TRUE
        IN  /\ outcome = "ok"
            /\ root = spans[r].spanId
            /\ \A i \in DOMAIN spans \ {r} :
                  spans[i].parentSpanId \in SpanIdsOf(spans) =>
                      \A n \in DOMAIN children :
                          Occurrences(children[n], spans[i].spanId) =
                              IF n = spans[i].parentSpanId THEN 1 ELSE 0

\* A three-span list with one parentless span in which a child comes before
\* its parent in input order.
C1_Witness ==
    /\ pc = "done"
    /\ outcome = "ok"
    /\ Len(spans) = 3
    /\ Cardinality(ParentlessIndices(spans)) = 1
    /\ \E i, j \in DOMAIN spans : i < j /\ spans[i].parentSpanId = spans[j].spanId
    /\ \E n \in DOMAIN children : Len(children[n]) = 2

\* C2: in the tree buildSpanTree returns, the children of every node
\* reachable from the root are non-decreasing in startTime, whether the root
\* is a parentless span or the earliest-startTime fallback.
C2_ChildrenSorted ==
    (pc = "done" /\ outcome = "ok") =>
        \A n \in Reachable(root, children) :
            NonDecreasing(children[n], StartOf(spans))

\* C3: a span whose non-empty parentSpanId matches no spanId of the list is
\* never the returned root nor a descendant of it, and no line is rendered
\* for it, also when the root is chosen by the fallback.
C3_OrphanNeverInTree ==
    pc = "done" =>
        \A i \in OrphanIndices(spans) :
            /\ root # spans[i].spanId
            /\ spans[i].spanId \notin Reachable(root, children)
            /\ \A k \in DOMAIN lines : lines[k].node # spans[i].spanId

\* C3, amended: such a span is in no node's children, so it is never a
\* descendant of the root; it is the root only when no span of the list is
\* parentless (the fallback), and only then is a line rendered for it, the
\* root's line.
C3_OrphanOnlyFallbackRoot ==
    pc = "done" =>
        \A i \in OrphanIndices(spans) :
            /\ \A n \in DOMAIN children : Occurrences(children[n], spans[i].spanId) = 0
            /\ root = spans[i].spanId => ParentlessIndices(spans) = {}
            /\ \A k \in DOMAIN lines :
                  lines[k].node = spans[i].spanId => k = 2 /\ root = spans[i].spanId

\* A rendered tree of two nodes next to a span with a missing parent that has
\* no line.
C3_Witness ==
    /\ pc = "done"
    /\ outcome = "ok"
    /\ Len(lines) = 3
    /\ ParentlessIndices(spans) # {}
    /\ \E i \in OrphanIndices(spans) :
          \A k \in DOMAIN lines : lines[k].node # spans[i].spanId

\* C4: renderTrace raises no error and terminates for every span list,
\* self-parented spans and parent cycles included.
C4_NoError == outcome # "RangeError"

\* C7: when no span of the list is parentless, buildSpanTree returns as root
\* the node of the first span, in input order, of least startTime.
C7_FallbackRootEarliest ==
    (pc = "done" /\ Len(spans) > 0 /\ ParentlessIndices(spans) = {}) =>
        root = spans[FirstEarliest(spans)].spanId

\* Three spans, none parentless, the earliest not first in input order and
\* tied with a later one.
C7_Witness ==
    /\ pc = "done"
    /\ Len(spans) = 3
    /\ ParentlessIndices(spans) = {}
    /\ FirstEarliest(spans) = 2
    /\ spans[3].startTime = spans[2].startTime
    /\ root = 2

\* C8: with unique spanIds and two or more parentless spans, the root is the
\* node of the parentless span that is last in input order, whatever the
\* start times; the other parentless spans and their subtrees are not
\* reachable from it.
C8_LastParentlessWins ==
    (pc = "done" /\ Cardinality(ParentlessIndices(spans)) >= 2) =>
        LET last == LastOf(ParentlessIndices(spans))
        IN  /\ outcome = "ok"
            /\ root = spans[last].spanId
            /\ \A i \in ParentlessIndices(spans) \ {last} :
                  Reachable(root, children)
                      \cap Reachable(spans[i].spanId, children) = {}

\* Two parentless spans, the last one starting later than the first, the
\* first one with a child.
C8_Witness ==
    /\ pc = "done"
    /\ Len(spans) = 3
    /\ ParentlessIndices(spans) = {1, 2}
    /\ spans[2].startTime > spans[1].startTime
    /\ spans[3].parentSpanId = 1
    /\ root = 2

----------------------------------------------------------------------------
\* C6: for duration >= 0, totalDuration >= 0 and barWidth >= 1,
\* renderTimelineBar returns exactly barWidth glyphs: a run of filler, a run
\* of at least one solid glyph, a run of filler.
C6_BarShape ==
    (barPc = "done" /\ barArgs.barWidth >= 1) =>
        /\ barOut.ok
        /\ Len(barOut.text) = barArgs.barWidth
        /\ \E i, j \in DOMAIN barOut.text :
              /\ i <= j
              /\ \A k \in DOMAIN barOut.text :
                    barOut.text[k] = IF i <= k /\ k <= j THEN Solid ELSE Filler

\* A span that starts at the end of the trace: the start position is the
\* bar's width before it is clamped, and the bar is the last cell.
C6_Witness ==
    /\ barPc = "done"
    /\ barArgs.barWidth >= 2
    /\ barArgs.totalDuration > 0
    /\ barArgs.startTime - barArgs.traceStartTime >= barArgs.totalDuration
    /\ barOut.text[barArgs.barWidth] = Solid
    /\ barOut.text[barArgs.barWidth - 1] = Filler

----------------------------------------------------------------------------
\* Vocabulary of the properties of the collector.

TimersOf(traceId) == {t \in timers : t.traceId = traceId}

\* Every pendingRenders entry is a scheduled timer of its trace and every
\* scheduled timer is the pendingRenders entry of its trace; at most one each.
OneTimerPerTrace ==
    /\ \A traceId \in TraceIds : Cardinality(TimersOf(traceId)) <= 1
    /\ \A traceId \in DOMAIN pendingRenders :
          \E t \in TimersOf(traceId) : t.id = pendingRenders[traceId]
    /\ \A t \in timers :
          Has(pendingRenders, t.traceId) /\ pendingRenders[t.traceId] = t.id

\* A timer makes at most one renderTrace call and is gone once it has.
FiresOnce ==
    /\ \A j, k \in DOMAIN rendered : j # k => rendered[j].timer # rendered[k].timer
    /\ \A k \in DOMAIN rendered : \A t \in timers : t.id # rendered[k].timer

\* C5: each trace id has at most one pending render timer, every onEnd call
\* for a span of the trace, parentless or not, cancels it and schedules a new
\* one (so the pending timer of a buffered trace is the one its latest span
\* scheduled), a timer fires at most once, and a trace is rendered only
\* after 100 ms without a new span of it.
C5_EverySpanReschedules ==
    /\ OneTimerPerTrace
    /\ FiresOnce
    /\ \A traceId \in DOMAIN traceSpans :
          LET buffer == traceSpans[traceId]
          IN  /\ Has(pendingRenders, traceId)
              /\ pendingRenders[traceId] = buffer[Len(buffer)].spanId
    /\ \A k \in DOMAIN rendered : rendered[k].quiet >= TimerDelay

\* C5, amended: each trace id has at most one pending render timer, every
\* onEnd call for a parentless span of the trace cancels it and schedules a
\* new one while an onEnd call for a span with a parent leaves the timers as
\* they are (so the pending timer of a buffered trace is the one its latest
\* parentless span scheduled, and there is none if it has no such span), a
\* timer fires at most once, and a trace is rendered only after 100 ms
\* without a new parentless span of it.
C5_ParentlessSpanReschedules ==
    /\ OneTimerPerTrace
    /\ FiresOnce
    /\ \A traceId \in DOMAIN traceSpans :
          LET buffer == traceSpans[traceId]
              roots == ParentlessIndices(buffer)
          IN  IF roots = {} THEN ~Has(pendingRenders, traceId)
              ELSE /\ Has(pendingRenders, traceId)
                   /\ pendingRenders[traceId] = buffer[LastOf(roots)].spanId
    /\ \A k \in DOMAIN rendered : rendered[k].quietRoot >= TimerDelay

\* A trace rendered after two parentless spans, the second of which replaced
\* the timer of the first, and a span with a parent that arrived less than
\* 100 ms before the render.
C5_Witness ==
    \E k \in DOMAIN rendered :
        /\ Cardinality(ParentlessIndices(rendered[k].spans)) = 2
        /\ Len(rendered[k].spans) = 3
        /\ rendered[k].quiet < TimerDelay
        /\ rendered[k].timer =
              rendered[k].spans[LastOf(ParentlessIndices(rendered[k].spans))].spanId

\* The spans handed to renderTrace so far, call after call.
RECURSIVE RenderedSpansFrom(_)
RenderedSpansFrom(k) ==
    IF k > Len(rendered) THEN <<>> ELSE rendered[k].spans \o RenderedSpansFrom(k + 1)

RenderedSpanIds == [k \in DOMAIN RenderedSpansFrom(1) |-> RenderedSpansFrom(1)[k].spanId]

BufferedSpanIds(traceId) ==
    IF Has(traceSpans, traceId)
    THEN [k \in DOMAIN traceSpans[traceId] |-> traceSpans[traceId][k].spanId]
    ELSE <<>>

\* C10: no collected span is passed to renderTrace more than once, a render
\* for a trace id contains only spans collected under it, a firing timer
\* renders the whole buffer and removes the buffer and the timer entry (every
\* collected span is either once in the buffer of its trace or once in one
\* render of its trace, never both), and a trace id has a pending timer only
\* while its buffer is non-empty.
C10_RenderedOnceUnderOwnTrace ==
    /\ \A id \in 1 .. calls :
          LET traceId == collectedUnder[id]
          IN  /\ Occurrences(RenderedSpanIds, id)
                    + Occurrences(BufferedSpanIds(traceId), id) = 1
              /\ \A other \in TraceIds \ {traceId} :
                    Occurrences(BufferedSpanIds(other), id) = 0
    /\ \A k \in DOMAIN rendered : \A i \in DOMAIN rendered[k].spans :
          collectedUnder[rendered[k].spans[i].spanId] = rendered[k].traceId
    /\ \A traceId \in DOMAIN pendingRenders :
          Has(traceSpans, traceId) /\ Len(traceSpans[traceId]) > 0
    /\ \A traceId \in DOMAIN traceSpans : Len(traceSpans[traceId]) > 0

\* Two traces rendered, one after the other, one of them with two spans, and
\* nothing left buffered or pending.
C10_Witness ==
    /\ Len(rendered) = 2
    /\ rendered[1].traceId # rendered[2].traceId
    /\ Len(rendered[1].spans) + Len(rendered[2].spans) = 3
    /\ DOMAIN traceSpans = {}
    /\ DOMAIN pendingRenders = {}

====
